---- MODULE Spec2Model ----
(***************************************************************************)
(* The react-unused-props-and-state rule of tslint-microsoft-contrib       *)
(* (src/reactUnusedPropsAndStateRule.ts) as a state machine.               *)
(*                                                                         *)
(* A run is one call of Rule.apply.  The walker of a run receives visit    *)
(* events (one per hook the syntax walker calls, in the order of a         *)
(* depth-first walk); every action below is the part of one hook that      *)
(* runs before it hands over to super.visitX, or the part that runs after  *)
(* super.visitX has returned.                                              *)
(*                                                                         *)
(* Text is a sequence of one-character strings, so that RegExp.test,       *)
(* String.substring and String.length are computed character by character. *)
(* Expressions are printed without interior trivia: getText() of an access *)
(* chain is the dotted chain.                                              *)
(***************************************************************************)
EXTENDS Naturals, Sequences, FiniteSets, TLC

(***************************************************************************)
(* Bounds of the model.                                                    *)
(***************************************************************************)
\* number of syntax nodes (declarations, members, expressions) of one file
MaxNodes == 4
\* depth of constructors / methods nested in one another
MaxDepth == 2

(***************************************************************************)
(* Text.                                                                   *)
(***************************************************************************)
\* JavaScript's undefined / null for a string-valued slot (no identifier is empty)
Undefined == << >>

Dot == <<".">>
ThisKeyword == <<"t", "h", "i", "s">>
SuperKeyword == <<"s", "u", "p", "e", "r">>
PropsWord == <<"p", "r", "o", "p", "s">>
StateWord == <<"s", "t", "a", "t", "e">>
PropsName == <<"P", "r", "o", "p", "s">>
StateName == <<"S", "t", "a", "t", "e">>
\* String(undefined)
UndefinedText == <<"u", "n", "d", "e", "f", "i", "n", "e", "d">>

\* String.prototype.substring(from): the text from 0-based index from on
Substring(text, from) ==
    IF from >= Len(text) THEN << >> ELSE SubSeq(text, from + 1, Len(text))

\* The atoms of a regular expression source, for the syntax the rule uses:
\* an escaped character, '.*', the end anchor '$', and literal characters.
RECURSIVE RegExpAtoms(_)
RegExpAtoms(source) ==
    IF source = << >> THEN << >>
    ELSE IF Head(source) = "\\" /\ Len(source) >= 2
         THEN <<[atom |-> "char", c |-> source[2]]>> \o RegExpAtoms(Substring(source, 2))
    ELSE IF Head(source) = "." /\ Len(source) >= 2 /\ source[2] = "*"
         THEN <<[atom |-> "anyStar", c |-> "."]>> \o RegExpAtoms(Substring(source, 2))
    ELSE IF Head(source) = "$"
         THEN <<[atom |-> "end", c |-> "$"]>> \o RegExpAtoms(Tail(source))
    ELSE <<[atom |-> "char", c |-> Head(source)]>> \o RegExpAtoms(Tail(source))

\* whether the atoms match the text from position pos (1-based) on
RECURSIVE MatchAt(_, _, _)
MatchAt(atoms, text, pos) ==
    IF atoms = << >> THEN TRUE
    ELSE LET h == Head(atoms) IN
         CASE h.atom = "char" ->
                  /\ pos <= Len(text)
                  /\ text[pos] = h.c
                  /\ MatchAt(Tail(atoms), text, pos + 1)
           [] h.atom = "end" ->
                  /\ pos = Len(text) + 1
                  /\ MatchAt(Tail(atoms), text, pos)
           [] h.atom = "anyStar" ->
                  \E k \in pos..(Len(text) + 1) : MatchAt(Tail(atoms), text, k)

\* A regular expression: the atoms of each of its alternatives (the
\* sources that '|' separates).
RegExp(alternatives) == {RegExpAtoms(source) : source \in alternatives}

\* RegExp.prototype.test without flags: a match may start anywhere
RegExpTest(regExp, text) ==
    \E atoms \in regExp :
        \E start \in 1..(Len(text) + 1) : MatchAt(atoms, text, start)

\* /this\.props\..*/ and /this\.state\..*/
ThisPropsRegExp ==
    RegExp({ThisKeyword \o <<"\\", ".">> \o PropsWord \o <<"\\", ".", ".", "*">>})
ThisStateRegExp ==
    RegExp({ThisKeyword \o <<"\\", ".">> \o StateWord \o <<"\\", ".", ".", "*">>})
\* new RegExp(alias + '\\..*')
AliasRegExp(alias) == RegExp({alias \o <<"\\", ".", ".", "*">>})

(***************************************************************************)
(* JavaScript objects used as maps, and arrays.                            *)
(***************************************************************************)
\* An object is the sequence of its own properties [key, value] in the order
\* of their creation.
EmptyObject == << >>

HasKey(obj, key) == \E i \in 1..Len(obj) : obj[i].key = key

\* obj[key]
Lookup(obj, key) == obj[CHOOSE i \in 1..Len(obj) : obj[i].key = key].value

\* obj[key] = value: an existing property keeps its place
Put(obj, key, value) ==
    IF HasKey(obj, key)
    THEN [i \in 1..Len(obj) |->
             IF obj[i].key = key THEN [key |-> key, value |-> value] ELSE obj[i]]
    ELSE Append(obj, [key |-> key, value |-> value])

DigitChars == <<"0", "1", "2", "3", "4", "5", "6", "7", "8", "9">>
IsDigit(c) == \E d \in 1..10 : DigitChars[d] = c
DigitValue(c) == (CHOOSE d \in 1..10 : DigitChars[d] = c) - 1

\* a canonical array index ("0", "7", "12"; not "01", not "")
IsArrayIndex(key) ==
    /\ Len(key) >= 1
    /\ \A i \in 1..Len(key) : IsDigit(key[i])
    /\ (Len(key) > 1 => key[1] # "0")

RECURSIVE IndexValue(_)
IndexValue(key) ==
    IF key = << >> THEN 0
    ELSE 10 * IndexValue(SubSeq(key, 1, Len(key) - 1)) + DigitValue(key[Len(key)])

\* the keys of keys that are array indices, in ascending numeric order
RECURSIVE SortIndexKeys(_)
SortIndexKeys(keys) ==
    IF keys = {} THEN << >>
    ELSE LET least == CHOOSE k \in keys :
                          \A other \in keys : IndexValue(k) <= IndexValue(other)
         IN  <<least>> \o SortIndexKeys(keys \ {least})

IsNamedEntry(entry) == ~IsArrayIndex(entry.key)

\* Object.keys(obj): array indices ascending, then the other keys in creation order
ObjectKeys(obj) ==
    LET indexKeys == {obj[i].key : i \in {j \in 1..Len(obj) : IsArrayIndex(obj[j].key)}}
        named == SelectSeq(obj, IsNamedEntry)
    IN  SortIndexKeys(indexKeys) \o [i \in 1..Len(named) |-> named[i].key]

\* Utils.remove(list, element): the list without the elements equal to element
Remove(list, element) ==
    LET Keep(x) == x # element IN SelectSeq(list, Keep)

(***************************************************************************)
(* Syntax nodes as the hooks see them.                                     *)
(***************************************************************************)
PropertyAccessExpression == "PropertyAccessExpression"
Parameter == "Parameter"
CallExpression == "CallExpression"
ExpressionStatement == "ExpressionStatement"
PropertySignature == "PropertySignature"
InterfaceDeclaration == "InterfaceDeclaration"
MethodDeclaration == "MethodDeclaration"

\* One call of a hook: hook names it, and the other fields are what the hook
\* reads of its node (fields a hook does not read are empty).
\*   text    node.getText() (property access), node.text (identifier),
\*           node.name.text (interface)
\*   parent  node.parent.kind
\*   callee  node.parent.expression.getText() when the parent is a call
\*   members the type elements of an interface, each [name, start, width]
\*   params  the text of the name of each parameter (Undefined for a pattern)
\*   name    the text of the name of a method (Undefined when it has none)
\*   id      the identity of a class declaration node
Event(hook, text, parent, callee, members, params, name, id) ==
    [hook |-> hook, text |-> text, parent |-> parent, callee |-> callee,
     members |-> members, params |-> params, name |-> name, id |-> id]

PropertyAccessEvent(text, parent) ==
    Event("PropertyAccessExpression", text, parent, << >>, << >>, << >>, << >>, 0)
IdentifierEvent(text, parent, callee) ==
    Event("Identifier", text, parent, callee, << >>, << >>, << >>, 0)
InterfaceEvent(name, members) ==
    Event("InterfaceDeclaration", name, "", << >>, members, << >>, << >>, 0)
ClassEvent(id) ==
    Event("ClassDeclaration", << >>, "", << >>, << >>, << >>, << >>, id)
ConstructorEvent(params) ==
    Event("Constructor", << >>, "", << >>, << >>, params, << >>, 0)
ConstructorEndEvent ==
    Event("ConstructorEnd", << >>, "", << >>, << >>, << >>, << >>, 0)
MethodEvent(name, params) ==
    Event("MethodDeclaration", << >>, "", << >>, << >>, params, name, 0)
MethodEndEvent ==
    Event("MethodEnd", << >>, "", << >>, << >>, << >>, << >>, 0)

(***************************************************************************)
(* The walker: its fields and its hooks.                                   *)
(***************************************************************************)
FAILURE_UNUSED_PROP == "Unused React property defined in interface: "
FAILURE_UNUSED_STATE == "Unused React state defined in interface: "

\* The fields of a new ReactUnusedPropsAndStateRuleWalker; failures is the
\* list RuleWalker.addFailure appends to.
NewWalker ==
    [propNames |-> << >>, propNodes |-> EmptyObject,
     stateNames |-> << >>, stateNodes |-> EmptyObject,
     classDeclarations |-> << >>,
     propsAlias |-> Undefined, stateAlias |-> Undefined,
     failures |-> << >>]

\* getTypeElementData: the members that have a name with a text, by that text
RECURSIVE getTypeElementData(_)
getTypeElementData(members) ==
    IF members = << >> THEN EmptyObject
    ELSE LET rest == getTypeElementData(SubSeq(members, 1, Len(members) - 1))
             typeElement == members[Len(members)]
         IN  IF typeElement.name # Undefined
             THEN Put(rest, typeElement.name, typeElement)
             ELSE rest

\* visitClassDeclaration: the class is queued and not walked
visitClassDeclaration(w, node) ==
    [w EXCEPT !.classDeclarations = Append(@, node.id)]

\* visitInterfaceDeclaration, up to super.visitInterfaceDeclaration
visitInterfaceDeclaration(w, node) ==
    LET w1 == IF node.text = PropsName
              THEN [w EXCEPT !.propNodes = getTypeElementData(node.members),
                             !.propNames = ObjectKeys(getTypeElementData(node.members))]
              ELSE w
    IN  IF node.text = StateName
        THEN [w1 EXCEPT !.stateNodes = getTypeElementData(node.members),
                        !.stateNames = ObjectKeys(getTypeElementData(node.members))]
        ELSE w1

\* visitPropertyAccessExpression, up to super.visitPropertyAccessExpression
visitPropertyAccessExpression(w, node) ==
    LET referencedPropertyName == node.text
        w1 == IF RegExpTest(ThisPropsRegExp, referencedPropertyName)
              THEN [w EXCEPT !.propNames =
                        Remove(@, Substring(referencedPropertyName, 11))]
              ELSE IF RegExpTest(ThisStateRegExp, referencedPropertyName)
              THEN [w EXCEPT !.stateNames =
                        Remove(@, Substring(referencedPropertyName, 11))]
              ELSE w
        w2 == IF /\ w1.propsAlias # Undefined
                 /\ RegExpTest(AliasRegExp(w1.propsAlias), referencedPropertyName)
              THEN [w1 EXCEPT !.propNames =
                        Remove(@, Substring(referencedPropertyName,
                                            Len(w1.propsAlias) + 1))]
              ELSE w1
        w3 == IF /\ w2.stateAlias # Undefined
                 /\ RegExpTest(AliasRegExp(w2.stateAlias), referencedPropertyName)
              THEN [w2 EXCEPT !.stateNames =
                        Remove(@, Substring(referencedPropertyName,
                                            Len(w2.stateAlias) + 1))]
              ELSE w2
    IN  IF node.parent # PropertyAccessExpression
        THEN IF referencedPropertyName = ThisKeyword \o Dot \o PropsWord
             THEN [w3 EXCEPT !.propNames = << >>]
             ELSE IF referencedPropertyName = ThisKeyword \o Dot \o StateWord
             THEN [w3 EXCEPT !.stateNames = << >>]
             ELSE w3
        ELSE w3

\* (a variant of isParentNodeSuperCall: the text of the callee not compared)
isParentNodeAnyCall(node) == node.parent = CallExpression

\* isParentNodeSuperCall
isParentNodeSuperCall(node) ==
    IF node.parent = CallExpression
    THEN node.callee = SuperKeyword
    ELSE FALSE

\* (a variant of visitIdentifier: the state alias passed to super is spared)
visitIdentifierSparingState(w, node) ==
    LET w1 == IF /\ w.propsAlias # Undefined
                 /\ node.text = w.propsAlias
                 /\ node.parent # PropertyAccessExpression
                 /\ node.parent # Parameter
                 /\ isParentNodeSuperCall(node) = FALSE
              THEN [w EXCEPT !.propNames = << >>]
              ELSE w
    IN  IF /\ w1.stateAlias # Undefined
           /\ node.text = w1.stateAlias
           /\ node.parent # PropertyAccessExpression
           /\ node.parent # Parameter
           /\ isParentNodeSuperCall(node) = FALSE
        THEN [w1 EXCEPT !.stateNames = << >>]
        ELSE w1

\* visitIdentifier, up to super.visitIdentifier
visitIdentifier(w, node) ==
    LET w1 == IF /\ w.propsAlias # Undefined
                 /\ node.text = w.propsAlias
                 /\ node.parent # PropertyAccessExpression
                 /\ node.parent # Parameter
                 /\ isParentNodeSuperCall(node) = FALSE
              THEN [w EXCEPT !.propNames = << >>]
              ELSE w
    IN  IF /\ w1.stateAlias # Undefined
           /\ node.text = w1.stateAlias
           /\ node.parent # PropertyAccessExpression
           /\ node.parent # Parameter
        THEN [w1 EXCEPT !.stateNames = << >>]
        ELSE w1

\* visitConstructorDeclaration, up to super.visitConstructorDeclaration
visitConstructorDeclaration(w, node) ==
    IF Len(node.params) > 0
    THEN [w EXCEPT !.propsAlias = node.params[1]]
    ELSE w

\* visitConstructorDeclaration, after super.visitConstructorDeclaration
leaveConstructorDeclaration(w) ==
    [w EXCEPT !.propsAlias = Undefined]

componentWillReceiveProps == <<"c", "o", "m", "p", "o", "n", "e", "n", "t", "W", "i", "l", "l", "R", "e", "c", "e", "i", "v", "e", "P", "r", "o", "p", "s">>
shouldComponentUpdate == <<"s", "h", "o", "u", "l", "d", "C", "o", "m", "p", "o", "n", "e", "n", "t", "U", "p", "d", "a", "t", "e">>
componentWillUpdate == <<"c", "o", "m", "p", "o", "n", "e", "n", "t", "W", "i", "l", "l", "U", "p", "d", "a", "t", "e">>
componentDidUpdate == <<"c", "o", "m", "p", "o", "n", "e", "n", "t", "D", "i", "d", "U", "p", "d", "a", "t", "e">>
\* /componentWillReceiveProps|shouldComponentUpdate|componentWillUpdate|componentDidUpdate/
PropsHooksRegExp ==
    RegExp({componentWillReceiveProps, shouldComponentUpdate, componentWillUpdate,
            componentDidUpdate})
\* /shouldComponentUpdate|componentWillUpdate|componentDidUpdate/
StateHooksRegExp ==
    RegExp({shouldComponentUpdate, componentWillUpdate, componentDidUpdate})

\* (a variant of ToStringArgument: a name without text reads as a hook)
ToStringOrHook(text) == IF text = Undefined THEN componentDidUpdate ELSE text

\* RegExp.test converts its argument to a string
ToStringArgument(text) == IF text = Undefined THEN UndefinedText ELSE text

\* visitMethodDeclaration, up to super.visitMethodDeclaration
visitMethodDeclaration(w, node) ==
    LET methodName == ToStringArgument(node.name)
        w1 == IF RegExpTest(PropsHooksRegExp, methodName) /\ Len(node.params) > 0
              THEN [w EXCEPT !.propsAlias = node.params[1]]
              ELSE w
    IN  IF RegExpTest(StateHooksRegExp, methodName) /\ Len(node.params) > 1
        THEN [w1 EXCEPT !.stateAlias = node.params[2]]
        ELSE w1

\* (a variant of leaveMethodDeclaration: the state alias is kept)
leaveMethodKeepingStateAlias(w) ==
    [w EXCEPT !.propsAlias = Undefined]

\* visitMethodDeclaration, after super.visitMethodDeclaration
leaveMethodDeclaration(w) ==
    [w EXCEPT !.propsAlias = Undefined, !.stateAlias = Undefined]

\* createFailure(typeElement.getStart(), typeElement.getWidth(), prefix + name)
createFailure(typeElement, prefix, name) ==
    [start |-> typeElement.start, width |-> typeElement.width,
     failure |-> <<prefix>> \o name]

\* visitSourceFile, lines 58-65: one failure for each name left, props first
reportFailures(w) ==
    [w EXCEPT !.failures =
        @ \o [i \in 1..Len(w.propNames) |->
                 createFailure(Lookup(w.propNodes, w.propNames[i]),
                               FAILURE_UNUSED_PROP, w.propNames[i])]
          \o [i \in 1..Len(w.stateNames) |->
                 createFailure(Lookup(w.stateNodes, w.stateNames[i]),
                               FAILURE_UNUSED_STATE, w.stateNames[i])]]

\* The effect of one visit event on the fields of the walker.
Visit(w, node) ==
    CASE node.hook = "InterfaceDeclaration" -> visitInterfaceDeclaration(w, node)
      [] node.hook = "ClassDeclaration" -> visitClassDeclaration(w, node)
      [] node.hook = "PropertyAccessExpression" -> visitPropertyAccessExpression(w, node)
      [] node.hook = "Identifier" -> visitIdentifier(w, node)
      [] node.hook = "Constructor" -> visitConstructorDeclaration(w, node)
      [] node.hook = "ConstructorEnd" -> leaveConstructorDeclaration(w)
      [] node.hook = "MethodDeclaration" -> visitMethodDeclaration(w, node)
      [] node.hook = "MethodEnd" -> leaveMethodDeclaration(w)

(***************************************************************************)
(* The order in which the syntax walker calls the hooks on a node.         *)
(***************************************************************************)
\* the text of an access chain: base.n1.n2...
RECURSIVE ChainText(_, _)
ChainText(base, path) ==
    IF path = << >> THEN base
    ELSE ChainText(base, SubSeq(path, 1, Len(path) - 1)) \o Dot \o path[Len(path)]

\* An access chain base.n1...nk whose outermost node has the given parent:
\* the property accesses from the outermost inwards, then the base when it
\* is an identifier (this is a keyword and has no hook), then the names.
ChainEvents(base, path, parent, callee) ==
    IF path = << >>
    THEN IF base = ThisKeyword THEN << >>
         ELSE <<IdentifierEvent(base, parent, callee)>>
    ELSE [i \in 1..Len(path) |->
             PropertyAccessEvent(
                 ChainText(base, SubSeq(path, 1, Len(path) - i + 1)),
                 IF i = 1 THEN parent ELSE PropertyAccessExpression)]
         \o (IF base = ThisKeyword THEN << >>
             ELSE <<IdentifierEvent(base, PropertyAccessExpression, << >>)>>)
         \o [i \in 1..Len(path) |->
                IdentifierEvent(path[i], PropertyAccessExpression, << >>)]

FunctionName == <<"f">>
SuperMethod == SuperKeyword \o Dot \o <<"m">>

\* the callee of a call, walked before its arguments: super is a keyword,
\* super.m a property access, f an identifier
CalleeEvents(callee) ==
    IF callee = SuperKeyword THEN << >>
    ELSE IF callee = SuperMethod
    THEN <<PropertyAccessEvent(SuperMethod, CallExpression),
           IdentifierEvent(<<"m">>, PropertyAccessExpression, << >>)>>
    ELSE <<IdentifierEvent(callee, CallExpression, callee)>>

\* An expression: an access chain, used as a statement (callee Undefined)
\* or as the argument of a call of callee.
Expression(base, path, callee) == [base |-> base, path |-> path, callee |-> callee]

ExpressionEvents(e) ==
    IF e.callee = Undefined
    THEN ChainEvents(e.base, e.path, ExpressionStatement, << >>)
    ELSE CalleeEvents(e.callee) \o ChainEvents(e.base, e.path, CallExpression, e.callee)

\* the type elements of an interface whose members have the given names,
\* the interface starting at offset at
TypeElements(names, at) ==
    [i \in 1..Len(names) |->
        [name |-> names[i], start |-> at + i, width |-> Len(names[i]) + 1]]

\* an interface declaration: its hook, then its name and the names of its members
InterfaceEvents(name, members) ==
    LET HasName(m) == m.name # Undefined
        named == SelectSeq(members, HasName)
    IN  <<InterfaceEvent(name, members),
          IdentifierEvent(name, InterfaceDeclaration, << >>)>>
        \o [i \in 1..Len(named) |->
               IdentifierEvent(named[i].name, PropertySignature, << >>)]

\* the identifiers of the parameters that are not patterns
ParameterEvents(params) ==
    LET IsName(x) == x # Undefined
        named == SelectSeq(params, IsName)
    IN  [i \in 1..Len(named) |-> IdentifierEvent(named[i], Parameter, << >>)]

\* a constructor: its hook, then its parameters; its body follows
ConstructorEvents(params) ==
    <<ConstructorEvent(params)>> \o ParameterEvents(params)

\* a method: its hook, then its name and its parameters; its body follows
MethodEvents(name, params) ==
    <<MethodEvent(name, params)>>
    \o (IF name = Undefined THEN << >>
        ELSE <<IdentifierEvent(name, MethodDeclaration, << >>)>>)
    \o ParameterEvents(params)

\* a method whose name is a string literal: the name has text and is no
\* identifier, so visitIdentifier is not called on it
LiteralMethodEvents(name, params) ==
    <<MethodEvent(name, params)>> \o ParameterEvents(params)

(***************************************************************************)
(* The files the model reads.                                              *)
(***************************************************************************)
a == <<"a">>
b == <<"b">>
p == <<"p">>
q == <<"$", "q">>
s == <<"s">>
render == <<"r", "e", "n", "d", "e", "r">>
OtherName == <<"O", "w", "n">>

\* the interfaces: their name and the names of their members in the order
\* of their declaration
Interfaces ==
    {[name |-> name, names |-> names] :
        name \in {PropsName, StateName}, names \in {<< >>, <<a>>, <<a, b>>}}
    \cup {[name |-> OtherName, names |-> <<a>>]}

\* the parameters of a constructor
ConstructorParameters == {<< >>, <<p>>, <<q>>}

\* the methods: their name and their parameters
Methods ==
    {[name |-> componentDidUpdate, params |-> params] :
        params \in {<< >>, <<p>>, <<q>>, <<p, s>>, <<p, q>>}}
    \cup {[name |-> componentWillReceiveProps, params |-> <<p, s>>],
          [name |-> render, params |-> <<p, s>>]}

\* The expressions of a body: reads of a member, and whole references
\* passed to a call.
Expressions ==
    {Expression(ThisKeyword, path, Undefined) :
        path \in {<<PropsWord, a>>, <<PropsWord, b>>, <<StateWord, a>>}}
    \cup
    {Expression(ThisKeyword, path, FunctionName) :
        path \in {<<PropsWord>>, <<StateWord>>}}
    \cup
    {Expression(base, <<a>>, Undefined) : base \in {p, q, s}}
    \cup
    {Expression(p, << >>, callee) :
        callee \in {FunctionName, SuperKeyword, SuperMethod}}
    \cup
    {Expression(base, << >>, FunctionName) : base \in {q, s}}

(***************************************************************************)
(* State.                                                                  *)
(***************************************************************************)
Main == "main"
RunIds == {"main", "again", "other"}

VARIABLES
    sourceFile,  \* per run: the file Rule.apply is called with
    pc,          \* per run: where the call is: idle, collect, analyze, done
    todo,        \* per run: the hooks the walk in progress will call next
    loop,        \* per run: index and length of classDeclarations.forEach
    result,      \* per run: the failures Rule.apply returned
    heap,        \* the fields of the walker objects
    walkers,     \* the walker objects constructed so far
    reading,     \* the part of the main file being read: file, class, none
    open,        \* the constructors and methods open where the file is read
    budget       \* the number of nodes the main file may still hold

vars == <<sourceFile, pc, todo, loop, result, heap, walkers, reading, open, budget>>

\* A file read as the walk proceeds (given = FALSE) has no content yet.
UnreadFile(variant) ==
    [given |-> FALSE, languageVariant |-> variant, items |-> << >>,
     top |-> << >>, classes |-> << >>]

\* (a variant of IsJsx: the test of the language variant left out)
IsJsxAnyVariant(file) == file.languageVariant \in {"JSX", "Standard"}

\* sourceFile.languageVariant === ts.LanguageVariant.JSX
IsJsx(file) == file.languageVariant = "JSX"

\* (a variant of Store: one object holds the fields of every walker)
SharedStore(r) == Main

\* the object that holds the fields of the walker of a run: one per run
Store(r) == r

Walker(r) == heap[Store(r)]

\* The current walk (of the source file, or of the children of one class)
\* has delivered every node.
WalkFinished(r) ==
    /\ todo[r] = << >>
    /\ sourceFile[r].given \/ reading = "none"

Init ==
    /\ sourceFile \in [RunIds -> {UnreadFile("JSX"), UnreadFile("Standard")}]
    /\ \A r \in RunIds \ {Main} : sourceFile[r] = UnreadFile("Standard")
    /\ pc = [r \in RunIds |-> "idle"]
    /\ todo = [r \in RunIds |-> << >>]
    /\ loop = [r \in RunIds |-> [index |-> 0, length |-> 0]]
    /\ result = [r \in RunIds |-> << >>]
    /\ heap = [r \in RunIds |-> NewWalker]
    /\ walkers = {}
    /\ reading = "file"
    /\ open = << >>
    /\ budget = MaxNodes

(***************************************************************************)
(* Rule.apply and visitSourceFile.                                         *)
(***************************************************************************)
\* Rule.apply: a JSX file gets a new walker, which starts on the source
\* file (super.visitSourceFile); any other file gets the empty list.
Apply(r) ==
    /\ pc[r] = "idle"
    /\ IF IsJsx(sourceFile[r])
       THEN /\ heap' = [heap EXCEPT ![Store(r)] = NewWalker]
            /\ walkers' = walkers \cup {Store(r)}
            /\ pc' = [pc EXCEPT ![r] = "collect"]
            /\ todo' = [todo EXCEPT ![r] = sourceFile[r].top]
            /\ UNCHANGED result
       ELSE /\ pc' = [pc EXCEPT ![r] = "done"]
            /\ result' = [result EXCEPT ![r] = << >>]
            /\ UNCHANGED <<heap, walkers, todo>>
    /\ UNCHANGED <<sourceFile, loop, reading, open, budget>>

\* visitSourceFile, lines 54-55: super.visitSourceFile has returned; forEach
\* fixes the number of classes it will call walkChildren on.
StartForEach(r) ==
    /\ pc[r] = "collect"
    /\ WalkFinished(r)
    /\ pc' = [pc EXCEPT ![r] = "analyze"]
    /\ loop' = [loop EXCEPT ![r] =
           [index |-> 0,
            length |-> IF Len(Walker(r).propNames) > 0 \/ Len(Walker(r).stateNames) > 0
                       THEN Len(Walker(r).classDeclarations)
                       ELSE 0]]
    /\ UNCHANGED <<sourceFile, todo, result, heap, walkers, reading, open, budget>>

\* the hooks walkChildren(class) calls: those of the file when it is given
ClassEvents(r, id) ==
    IF sourceFile[r].given THEN sourceFile[r].classes[id] ELSE << >>

\* visitSourceFile, line 55: forEach calls walkChildren on the next class
WalkChildren(r) ==
    /\ pc[r] = "analyze"
    /\ WalkFinished(r)
    /\ loop[r].index < loop[r].length
    /\ loop' = [loop EXCEPT ![r].index = @ + 1]
    /\ todo' = [todo EXCEPT ![r] =
           ClassEvents(r, Walker(r).classDeclarations[loop[r].index + 1])]
    /\ reading' = IF sourceFile[r].given THEN reading ELSE "class"
    /\ UNCHANGED <<sourceFile, pc, result, heap, walkers, open, budget>>

\* visitSourceFile, lines 58-65, and the return of applyWithWalker
Report(r) ==
    /\ pc[r] = "analyze"
    /\ WalkFinished(r)
    /\ loop[r].index = loop[r].length
    /\ heap' = [heap EXCEPT ![Store(r)] = reportFailures(@)]
    /\ result' = [result EXCEPT ![r] = reportFailures(Walker(r)).failures]
    /\ pc' = [pc EXCEPT ![r] = "done"]
    /\ UNCHANGED <<sourceFile, todo, loop, walkers, reading, open, budget>>

(***************************************************************************)
(* The hooks.                                                              *)
(***************************************************************************)
Walking(r, hook) ==
    /\ pc[r] \in {"collect", "analyze"}
    /\ todo[r] # << >>
    /\ Head(todo[r]).hook = hook
    /\ todo' = [todo EXCEPT ![r] = Tail(@)]
    /\ UNCHANGED <<sourceFile, pc, loop, result, walkers, reading, open, budget>>

VisitInterfaceDeclaration(r) ==
    /\ Walking(r, "InterfaceDeclaration")
    /\ heap' = [heap EXCEPT ![Store(r)] = visitInterfaceDeclaration(@, Head(todo[r]))]

VisitClassDeclaration(r) ==
    /\ Walking(r, "ClassDeclaration")
    /\ heap' = [heap EXCEPT ![Store(r)] = visitClassDeclaration(@, Head(todo[r]))]

VisitPropertyAccessExpression(r) ==
    /\ Walking(r, "PropertyAccessExpression")
    /\ heap' = [heap EXCEPT ![Store(r)] = visitPropertyAccessExpression(@, Head(todo[r]))]

VisitIdentifier(r) ==
    /\ Walking(r, "Identifier")
    /\ heap' = [heap EXCEPT ![Store(r)] = visitIdentifier(@, Head(todo[r]))]

VisitConstructorDeclaration(r) ==
    /\ Walking(r, "Constructor")
    /\ heap' = [heap EXCEPT ![Store(r)] = visitConstructorDeclaration(@, Head(todo[r]))]

LeaveConstructorDeclaration(r) ==
    /\ Walking(r, "ConstructorEnd")
    /\ heap' = [heap EXCEPT ![Store(r)] = leaveConstructorDeclaration(@)]

VisitMethodDeclaration(r) ==
    /\ Walking(r, "MethodDeclaration")
    /\ heap' = [heap EXCEPT ![Store(r)] = visitMethodDeclaration(@, Head(todo[r]))]

LeaveMethodDeclaration(r) ==
    /\ Walking(r, "MethodEnd")
    /\ heap' = [heap EXCEPT ![Store(r)] = leaveMethodDeclaration(@)]

(***************************************************************************)
(* Reading the main file: the next node of the walk is any node a file can *)
(* hold at that place.                                                     *)
(***************************************************************************)
CanRead ==
    /\ ~sourceFile[Main].given
    /\ pc[Main] \in {"collect", "analyze"}
    /\ todo[Main] = << >>
    /\ reading # "none"

\* the distance between the offsets of two top-level nodes of a file
TopStep == 10

\* the offset of the next node, and the identity of a class declared there
Offset == TopStep * (MaxNodes - budget + 1)

ReadNode(events) ==
    /\ CanRead
    /\ budget > 0
    /\ budget' = budget - 1
    /\ todo' = [todo EXCEPT ![Main] = events]
    /\ UNCHANGED <<sourceFile, pc, loop, result, heap, walkers, reading>>

ReadInterface ==
    \E i \in Interfaces :
        /\ ReadNode(InterfaceEvents(i.name, TypeElements(i.names, Offset)))
        /\ UNCHANGED open

ReadClass ==
    /\ ReadNode(<<ClassEvent(Offset)>>)
    /\ UNCHANGED open

ReadExpression ==
    \E e \in Expressions :
        /\ ReadNode(ExpressionEvents(e))
        /\ UNCHANGED open

ReadConstructor ==
    \E params \in ConstructorParameters :
        /\ Len(open) < MaxDepth
        /\ ReadNode(ConstructorEvents(params))
        /\ open' = Append(open, "Constructor")

ReadMethod ==
    \E m \in Methods :
        /\ Len(open) < MaxDepth
        /\ ReadNode(MethodEvents(m.name, m.params))
        /\ open' = Append(open, "Method")

\* the end of the innermost open constructor or method
ReadEndOfMember ==
    /\ CanRead
    /\ open # << >>
    /\ open' = SubSeq(open, 1, Len(open) - 1)
    /\ todo' = [todo EXCEPT ![Main] =
           IF open[Len(open)] = "Constructor"
           THEN <<ConstructorEndEvent>> ELSE <<MethodEndEvent>>]
    /\ UNCHANGED <<sourceFile, pc, loop, result, heap, walkers, reading, budget>>

\* the end of the source file, or of the class being walked
ReadEnd ==
    /\ CanRead
    /\ open = << >>
    /\ reading' = "none"
    /\ UNCHANGED <<sourceFile, pc, todo, loop, result, heap, walkers, open, budget>>

Hooks(r) ==
    \/ VisitInterfaceDeclaration(r)
    \/ VisitClassDeclaration(r)
    \/ VisitPropertyAccessExpression(r)
    \/ VisitIdentifier(r)
    \/ VisitConstructorDeclaration(r)
    \/ LeaveConstructorDeclaration(r)
    \/ VisitMethodDeclaration(r)
    \/ LeaveMethodDeclaration(r)

Next ==
    \/ Apply(Main)
    \/ StartForEach(Main)
    \/ WalkChildren(Main)
    \/ Report(Main)
    \/ Hooks(Main)
    \/ ReadInterface
    \/ ReadClass
    \/ ReadExpression
    \/ ReadConstructor
    \/ ReadMethod
    \/ ReadEndOfMember
    \/ ReadEnd

Spec == Init /\ [][Next]_vars

(***************************************************************************)
(* Properties of one run (specification Spec).                             *)
(***************************************************************************)
\* the names of a list, as a set
Names(list) == {list[i] : i \in 1..Len(list)}

\* The main walk is about to call the given hook on the node Head(todo).
Delivering(hook) ==
    /\ pc[Main] \in {"collect", "analyze"}
    /\ todo[Main] # << >>
    /\ Head(todo[Main]).hook = hook

Node == Head(todo[Main])

\* C1: Rule.apply on a file whose language variant is not JSX returns the
\* empty list and constructs no walker, whatever the file contains: no
\* hook is called, nothing is collected, no class is queued.
NonJsxFileYieldsNothing ==
    \A r \in RunIds :
        sourceFile[r].languageVariant # "JSX" =>
            /\ pc[r] \in {"idle", "done"}
            /\ Store(r) \notin walkers
            /\ heap[Store(r)] = NewWalker
            /\ todo[r] = << >>
            /\ result[r] = << >>

\* C1, reached: apply has returned for a file that is not JSX and that
\* declares Props with two members and a class
NonJsxFileApplied ==
    /\ sourceFile[Main].languageVariant # "JSX"
    /\ Len(sourceFile[Main].items) = 2
    /\ sourceFile[Main].items[1].kind = "interface"
    /\ sourceFile[Main].items[1].name = PropsName
    /\ Len(sourceFile[Main].items[1].list) = 2
    /\ sourceFile[Main].items[2].kind = "class"
    /\ pc[Main] = "done"

\* visitIdentifier is about to be called on the identifier of the props
\* alias, outside a member access and outside a parameter declaration
BareAliasIdentifier ==
    /\ Delivering("Identifier")
    /\ heap[Main].propsAlias # Undefined
    /\ Node.text = heap[Main].propsAlias
    /\ Node.parent \notin {PropertyAccessExpression, Parameter}

\* C6: while a props alias is bound, the alias identifier as the argument
\* of a call whose callee text is exactly super leaves the Props unused
\* set as it is; under any other call (super.m(alias) too) or any other
\* parent but a member access or a parameter, it empties the set.
SuperCallKeepsPropsElseCleared ==
    [][BareAliasIdentifier =>
          IF Node.parent = CallExpression /\ Node.callee = SuperKeyword
          THEN heap'[Main].propNames = heap[Main].propNames
          ELSE heap'[Main].propNames = << >>]_vars

\* C6, reached: super(alias) is visited while Props names are unused
SuperCallWithUnusedProps ==
    /\ BareAliasIdentifier
    /\ Node.parent = CallExpression
    /\ Node.callee = SuperKeyword
    /\ heap[Main].propNames # << >>

StateHooks == {shouldComponentUpdate, componentWillUpdate, componentDidUpdate}

\* the text alias.name
AliasAccess(alias, name) == alias \o Dot \o name

\* The file is being read inside a method (and in no constructor nested
\* in it).
InMethod == open # << >> /\ open[Len(open)] = "Method"

\* C5: entering a three-hook method with two parameters binds the state
\* alias to the second and the props alias to the first, so that
\* <second>.y removes y from the State unused set and <first>.x removes x
\* from the Props unused set; componentWillReceiveProps binds the props
\* alias only; any other method binds neither, and then accesses through
\* its parameters remove nothing.
LifecycleAliasesBindAndRemove ==
    [][/\ (Delivering("MethodDeclaration") /\ Node.name \in StateHooks
             /\ Len(Node.params) >= 2) =>
              /\ heap'[Main].propsAlias = Node.params[1]
              /\ heap'[Main].stateAlias = Node.params[2]
       /\ (Delivering("MethodDeclaration") /\ Node.name = componentWillReceiveProps
             /\ Len(Node.params) >= 1) =>
              /\ heap'[Main].propsAlias = Node.params[1]
              /\ heap'[Main].stateAlias = heap[Main].stateAlias
       /\ (Delivering("MethodDeclaration")
             /\ Node.name \notin StateHooks \cup {componentWillReceiveProps}) =>
              /\ heap'[Main].propsAlias = heap[Main].propsAlias
              /\ heap'[Main].stateAlias = heap[Main].stateAlias
       /\ (Delivering("PropertyAccessExpression")
             /\ heap[Main].propsAlias = Undefined /\ heap[Main].stateAlias = Undefined
             /\ Node.text \in {AliasAccess(base, a) : base \in {p, q, s}}) =>
              /\ heap'[Main].propNames = heap[Main].propNames
              /\ heap'[Main].stateNames = heap[Main].stateNames
       /\ \A y \in {a, b} :
             /\ (Delivering("PropertyAccessExpression")
                   /\ heap[Main].stateAlias # Undefined
                   /\ Node.text = AliasAccess(heap[Main].stateAlias, y)) =>
                    y \notin Names(heap'[Main].stateNames)
             /\ (Delivering("PropertyAccessExpression") /\ InMethod
                   /\ heap[Main].propsAlias # Undefined
                   /\ Node.text = AliasAccess(heap[Main].propsAlias, y)) =>
                    y \notin Names(heap'[Main].propNames)
      ]_vars

\* C9: during the walk of the queued classes each unused set only shrinks.
UnusedSetsOnlyShrinkInPhase2 ==
    [][pc[Main] = "analyze" =>
          /\ Names(heap'[Main].propNames) \subseteq Names(heap[Main].propNames)
          /\ Names(heap'[Main].stateNames) \subseteq Names(heap[Main].stateNames)
      ]_vars

(***************************************************************************)
(* Files given whole: the syntax of a file, and the hooks the walk of it   *)
(* calls.                                                                  *)
(***************************************************************************)
\* number of top-level nodes of a file given whole
MaxTop == 3
\* number of top-level nodes of a file analysed twice
MaxRunTop == 2

Again == "again"
Other == "other"

NoExpression == Expression(Undefined, << >>, Undefined)

Syntax(kind, name, list, body, e) ==
    [kind |-> kind, name |-> name, list |-> list, body |-> body, e |-> e]

InterfaceSyntax(name, names) == Syntax("interface", name, names, << >>, NoExpression)
StatementSyntax(e) == Syntax("statement", Undefined, << >>, << >>, e)
ConstructorSyntax(params, body) == Syntax("constructor", Undefined, params, body, NoExpression)
MethodSyntax(name, params, body) == Syntax("method", name, params, body, NoExpression)
LiteralMethodSyntax(name, params, body) ==
    Syntax("literalMethod", name, params, body, NoExpression)
ClassSyntax(members) == Syntax("class", Undefined, << >>, members, NoExpression)

\* The hooks called on a node at offset at, in the order of the walk: a
\* class declaration is not descended into (visitClassDeclaration), a
\* constructor or method is left after its body.  The i-th of a sequence
\* of nodes lies at offset at + i * step.
RECURSIVE SyntaxEvents(_, _)
RECURSIVE SequenceEvents(_, _, _)
SyntaxEvents(node, at) ==
    CASE node.kind = "interface" ->
             InterfaceEvents(node.name, TypeElements(node.list, at))
      [] node.kind = "statement" -> ExpressionEvents(node.e)
      [] node.kind = "constructor" ->
             ConstructorEvents(node.list) \o SequenceEvents(node.body, at, 1)
                 \o <<ConstructorEndEvent>>
      [] node.kind = "method" ->
             MethodEvents(node.name, node.list) \o SequenceEvents(node.body, at, 1)
                 \o <<MethodEndEvent>>
      [] node.kind = "literalMethod" ->
             LiteralMethodEvents(node.name, node.list) \o SequenceEvents(node.body, at, 1)
                 \o <<MethodEndEvent>>
      [] node.kind = "class" -> <<ClassEvent(at)>>

SequenceEvents(nodes, at, step) ==
    IF nodes = << >> THEN << >>
    ELSE SequenceEvents(SubSeq(nodes, 1, Len(nodes) - 1), at, step)
             \o SyntaxEvents(nodes[Len(nodes)], at + Len(nodes) * step)

\* the file with the given syntax: the hooks of the walk of the source
\* file, and for each class declaration those of walkChildren on it
GivenFile(variant, items) ==
    [given |-> TRUE, languageVariant |-> variant, items |-> items,
     top |-> SequenceEvents(items, 0, TopStep),
     classes |-> [id \in {k * TopStep : k \in 1..Len(items)} |->
                     SequenceEvents(items[id \div TopStep].body, id, 1)]]

(***************************************************************************)
(* The files given.                                                        *)
(***************************************************************************)
PropsAB == InterfaceSyntax(PropsName, <<a, b>>)
PropsA == InterfaceSyntax(PropsName, <<a>>)
StateA == InterfaceSyntax(StateName, <<a>>)

\* this.props.a
ReadPropsA == StatementSyntax(Expression(ThisKeyword, <<PropsWord, a>>, Undefined))
\* f(this.props)
PassProps == StatementSyntax(Expression(ThisKeyword, <<PropsWord>>, FunctionName))

\* class { constructor(p) { p.a } }
ClassAlias ==
    ClassSyntax(<<ConstructorSyntax(<<p>>,
                    <<StatementSyntax(Expression(p, <<a>>, Undefined))>>)>>)
\* class { constructor($q) { $q.a } }
ClassDollarAlias ==
    ClassSyntax(<<ConstructorSyntax(<<q>>,
                    <<StatementSyntax(Expression(q, <<a>>, Undefined))>>)>>)
\* class { render() { this.props.a } }
ClassRead == ClassSyntax(<<MethodSyntax(render, << >>, <<ReadPropsA>>)>>)
\* class { render() { f(this.props) } }
ClassEscape == ClassSyntax(<<MethodSyntax(render, << >>, <<PassProps>>)>>)
\* class { render() { interface Props { a } } }
ClassInterface == ClassSyntax(<<MethodSyntax(render, << >>, <<PropsA>>)>>)
\* class { componentDidUpdate(p, s) { s.a } }
ClassStateAlias ==
    ClassSyntax(<<MethodSyntax(componentDidUpdate, <<p, s>>,
                    <<StatementSyntax(Expression(s, <<a>>, Undefined))>>)>>)

TopLevel ==
    {PropsAB, PropsA, StateA, ReadPropsA, PassProps, ClassAlias, ClassDollarAlias,
     ClassRead, ClassEscape, ClassInterface, ClassStateAlias}

\* the nodes of the files analysed twice
RunTopLevel ==
    {PropsAB, StateA, ReadPropsA, ClassAlias, ClassRead, ClassEscape, ClassStateAlias}

SequencesUpTo(set, n) == UNION {[1..k -> set] : k \in 0..n}

Variants == {"JSX", "Standard"}

(***************************************************************************)
(* Two files related: the second is the first, or the first with an        *)
(* access through the parameter of a constructor written this.props, or    *)
(* the first with two neighbouring declarations exchanged.                 *)
(***************************************************************************)
\* a statement p.x.. of a constructor with first parameter p, as this.props.x..
CanonicalStatement(node, alias) ==
    IF /\ node.kind = "statement"
       /\ node.e.base = alias
       /\ node.e.path # << >>
       /\ node.e.callee = Undefined
    THEN StatementSyntax(Expression(ThisKeyword, <<PropsWord>> \o node.e.path, Undefined))
    ELSE node

CanonicalMember(node) ==
    IF node.kind = "constructor" /\ node.list # << >> /\ node.list[1] # Undefined
    THEN [node EXCEPT !.body =
             [i \in 1..Len(node.body) |-> CanonicalStatement(node.body[i], node.list[1])]]
    ELSE node

Canonical(items) ==
    [k \in 1..Len(items) |->
        IF items[k].kind = "class"
        THEN [items[k] EXCEPT !.body =
                 [i \in 1..Len(items[k].body) |-> CanonicalMember(items[k].body[i])]]
        ELSE items[k]]

Exchange(items, k) ==
    [i \in 1..Len(items) |->
        IF i = k THEN items[k + 1] ELSE IF i = k + 1 THEN items[k] ELSE items[i]]

\* Exchanging the k-th and the next top-level node exchanges two interface
\* or class declarations and keeps the last declaration of each contract
\* last.
CanExchange(items, k) ==
    /\ k \in 1..(Len(items) - 1)
    /\ items[k].kind \in {"interface", "class"}
    /\ items[k + 1].kind \in {"interface", "class"}
    /\ ~(/\ items[k].kind = "interface"
         /\ items[k + 1].kind = "interface"
         /\ items[k].name = items[k + 1].name)

IsReordering(items, other) ==
    \E k \in 1..(Len(items) - 1) : CanExchange(items, k) /\ other = Exchange(items, k)

Related(items) ==
    {items, Canonical(items)}
    \cup {Exchange(items, k) : k \in {j \in 1..(Len(items) - 1) : CanExchange(items, j)}}

(***************************************************************************)
(* Calls of Rule.apply on given files.                                     *)
(***************************************************************************)
NoRead ==
    /\ reading = "none"
    /\ open = << >>
    /\ budget = 0

InitCalls ==
    /\ pc = [r \in RunIds |-> "idle"]
    /\ todo = [r \in RunIds |-> << >>]
    /\ loop = [r \in RunIds |-> [index |-> 0, length |-> 0]]
    /\ result = [r \in RunIds |-> << >>]
    /\ heap = [r \in RunIds |-> NewWalker]
    /\ walkers = {}
    /\ NoRead

\* a file, then a file related to it
InitFiles ==
    /\ \E variant \in Variants, items \in SequencesUpTo(TopLevel, MaxTop) :
         \E related \in Related(items) :
            sourceFile = [r \in RunIds |->
                CASE r = Main -> GivenFile(variant, items)
                  [] r = Again -> GivenFile(variant, related)
                  [] OTHER -> UnreadFile("Standard")]
    /\ InitCalls

\* the files whose analysis is interleaved with that of another file
OtherFiles ==
    {<<PropsA, ClassEscape>>, <<StateA, PropsAB, ClassStateAlias>>}

\* a file, then the same file again while another file is analysed
InitRuns ==
    /\ \E variant \in Variants, items \in SequencesUpTo(RunTopLevel, MaxRunTop) :
         \E other \in OtherFiles :
            sourceFile = [r \in RunIds |->
                CASE r = Main -> GivenFile(variant, items)
                  [] r = Again -> GivenFile(variant, items)
                  [] OTHER -> GivenFile("JSX", other)]
    /\ InitCalls

\* The first call returns before the others are made; the others proceed
\* in any interleaving of their steps.
Called(r) ==
    /\ sourceFile[r].given
    /\ r = Main \/ pc[Main] = "done"

Call(r) == Called(r) /\ Apply(r)

NextCalls ==
    \E r \in RunIds :
        \/ Call(r)
        \/ StartForEach(r)
        \/ WalkChildren(r)
        \/ Report(r)
        \/ Hooks(r)

SpecFiles == InitFiles /\ [][NextCalls]_vars

SpecRuns == InitRuns /\ [][NextCalls]_vars

(***************************************************************************)
(* Properties of the calls on given files (SpecFiles, SpecRuns).           *)
(***************************************************************************)
Done(r) == pc[r] = "done"

Range(list) == {list[i] : i \in 1..Len(list)}

\* the members of the class declarations of a file
ClassMembers(items) ==
    UNION {Range(items[k].body) : k \in {j \in 1..Len(items) : items[j].kind = "class"}}

\* the statements written directly in the body of a member
MemberStatements(member) == {n \in Range(member.body) : n.kind = "statement"}

Word(contract) == IF contract = PropsName THEN PropsWord ELSE StateWord
Prefix(contract) ==
    IF contract = PropsName THEN FAILURE_UNUSED_PROP ELSE FAILURE_UNUSED_STATE

\* the parameter that stands for the contract inside a member, if any
AliasOf(member, contract) ==
    IF contract = PropsName
    THEN IF /\ Len(member.list) >= 1
            /\ \/ member.kind = "constructor"
               \/ /\ member.kind = "method"
                  /\ member.name \in StateHooks \cup {componentWillReceiveProps}
         THEN member.list[1] ELSE Undefined
    ELSE IF /\ Len(member.list) >= 2
            /\ member.kind = "method"
            /\ member.name \in StateHooks
         THEN member.list[2] ELSE Undefined

\* name is read as this.props.name (this.state.name) or alias.name in a class
Referenced(items, contract, name) ==
    \E member \in ClassMembers(items) : \E n \in MemberStatements(member) :
        /\ n.e.callee = Undefined
        /\ \/ n.e.base = ThisKeyword /\ n.e.path = <<Word(contract), name>>
           \/ /\ AliasOf(member, contract) # Undefined
              /\ n.e.base = AliasOf(member, contract)
              /\ n.e.path = <<name>>

\* this.props (this.state) is passed whole to a call inside a class
HasEscape(items, contract) ==
    \E member \in ClassMembers(items) : \E n \in MemberStatements(member) :
        /\ n.e.callee # Undefined
        /\ n.e.base = ThisKeyword
        /\ n.e.path = <<Word(contract)>>

TopInterfaces(items, contract) ==
    {k \in 1..Len(items) : items[k].kind = "interface" /\ items[k].name = contract}

\* A file of interfaces and class declarations, at most one interface for
\* each contract and none inside a class, and no call in a class.
PlainFile(items) ==
    /\ \A k \in 1..Len(items) : items[k].kind \in {"interface", "class"}
    /\ Cardinality(TopInterfaces(items, PropsName)) <= 1
    /\ Cardinality(TopInterfaces(items, StateName)) <= 1
    /\ \A member \in ClassMembers(items) : \A n \in Range(member.body) :
          n.kind = "statement" /\ n.e.callee = Undefined

\* the failures of a contract among those returned
FailuresOf(failures, contract) ==
    SelectSeq(failures, LAMBDA f : f.failure[1] = Prefix(contract))

\* the failures the contract's one interface calls for: one for each
\* member never read, at the start and width of the member's declaration
ExpectedFailures(items, contract) ==
    LET k == CHOOSE j \in TopInterfaces(items, contract) : TRUE
        elements == TypeElements(items[k].list, k * TopStep)
    IN  {createFailure(elements[i], Prefix(contract), elements[i].name) :
            i \in {j \in 1..Len(elements) :
                      ~Referenced(items, contract, elements[j].name)}}

\* C2: for a JSX file with one Props (State) interface and class
\* declarations without escape, the Props (State) failures are exactly one
\* for each declared member never read as this.props.name
\* (this.state.name) or alias.name in any class, anchored at the member's
\* declaration and carrying the contract's message.
FailuresAreTheUnreadMembers ==
    \A contract \in {PropsName, StateName} :
        (/\ Done(Main)
         /\ IsJsx(sourceFile[Main])
         /\ PlainFile(sourceFile[Main].items)
         /\ TopInterfaces(sourceFile[Main].items, contract) # {}) =>
            /\ Range(FailuresOf(result[Main], contract))
                  = ExpectedFailures(sourceFile[Main].items, contract)
            /\ Len(FailuresOf(result[Main], contract))
                  = Cardinality(ExpectedFailures(sourceFile[Main].items, contract))

\* C3: when this.props (this.state) is passed whole to a call anywhere in a
\* class of the file, no Props (State) failure is returned; and the visit
\* of the whole reference leaves the other contract's unused names alone.
EscapeSilencesContract ==
    /\ [](\A contract \in {PropsName, StateName} :
            (/\ Done(Main)
             /\ IsJsx(sourceFile[Main])
             /\ HasEscape(sourceFile[Main].items, contract)) =>
                FailuresOf(result[Main], contract) = << >>)
    /\ [][(/\ Delivering("PropertyAccessExpression")
           /\ Node.parent # PropertyAccessExpression) =>
             /\ Node.text = ThisKeyword \o Dot \o PropsWord =>
                   heap'[Main].stateNames = heap[Main].stateNames
             /\ Node.text = ThisKeyword \o Dot \o StateWord =>
                   heap'[Main].propNames = heap[Main].propNames]_vars

\* C4: a run on a file that reads p.x in a constructor with first parameter
\* p returns the same failures as the run on the file with p.x written
\* this.props.x.
AliasReadIsPropsRead ==
    (/\ Done(Main)
     /\ Done(Again)
     /\ sourceFile[Again].items = Canonical(sourceFile[Main].items)) =>
        result[Main] = result[Again]

\* the member names of the last top-level interface of the contract
LastDeclared(items, contract) ==
    IF TopInterfaces(items, contract) = {} THEN {}
    ELSE LET last == CHOOSE k \in TopInterfaces(items, contract) :
                         \A j \in TopInterfaces(items, contract) : j <= k
         IN  Range(items[last].list)

\* C7: a visit of an interface named Props (State) replaces the contract's
\* names and its map by those of the visited interface and leaves the
\* other contract's alone; after collection each unused set holds the
\* member names of the contract's last declaration only.
LastDeclarationWins ==
    [][/\ (Delivering("InterfaceDeclaration") /\ Node.text = PropsName) =>
             /\ Names(heap'[Main].propNames) = {m.name : m \in Range(Node.members)}
             /\ {e.key : e \in Range(heap'[Main].propNodes)}
                   = {m.name : m \in Range(Node.members)}
             /\ heap'[Main].stateNames = heap[Main].stateNames
             /\ heap'[Main].stateNodes = heap[Main].stateNodes
       /\ (Delivering("InterfaceDeclaration") /\ Node.text = StateName) =>
             /\ Names(heap'[Main].stateNames) = {m.name : m \in Range(Node.members)}
             /\ {e.key : e \in Range(heap'[Main].stateNodes)}
                   = {m.name : m \in Range(Node.members)}
             /\ heap'[Main].propNames = heap[Main].propNames
             /\ heap'[Main].propNodes = heap[Main].propNodes
       /\ (pc[Main] = "collect" /\ pc'[Main] = "analyze") =>
             /\ Names(heap'[Main].propNames)
                   = LastDeclared(sourceFile[Main].items, PropsName)
             /\ Names(heap'[Main].stateNames)
                   = LastDeclared(sourceFile[Main].items, StateName)
      ]_vars

\* the messages of the failures returned
Messages(failures) == [i \in 1..Len(failures) |-> failures[i].failure]

IsSuffix(list, whole) ==
    /\ Len(list) <= Len(whole)
    /\ list = SubSeq(whole, Len(whole) - Len(list) + 1, Len(whole))

\* C8: while the source file is walked no class body is traversed, and the
\* failures are the same for a file and for the file with two of its
\* top-level interface and class declarations exchanged, the last
\* declaration of each contract staying last.
DeclarationOrderIsIrrelevant ==
    /\ [](pc[Main] = "collect" => IsSuffix(todo[Main], sourceFile[Main].top))
    /\ []((/\ Done(Main)
           /\ Done(Again)
           /\ IsReordering(sourceFile[Main].items, sourceFile[Again].items)) =>
              Range(Messages(result[Main])) = Range(Messages(result[Again])))

\* C10: the walker of every call is new when its walk starts, and the second
\* of two calls on the same file returns the failures of the first, whatever
\* the interleaving of its steps with the analysis of another file.
RunsAgree ==
    /\ \A r \in RunIds :
          (pc[r] = "collect" /\ todo[r] = sourceFile[r].top
             /\ Walker(r).classDeclarations = << >>) => Walker(r) = NewWalker
    /\ (/\ Done(Main)
        /\ Done(Again)
        /\ sourceFile[Again] = sourceFile[Main]) =>
           result[Again] = result[Main]

\* C10, reached: the first call has returned failures, and the second call
\* on the same file and the call on the other file are both under way with
\* different names unused
RunsInterleaved ==
    /\ Done(Main)
    /\ result[Main] # << >>
    /\ sourceFile[Again] = sourceFile[Main]
    /\ pc[Again] = "analyze"
    /\ pc[Other] = "analyze"
    /\ todo[Again] # << >>
    /\ todo[Other] # << >>
    /\ Walker(Again).propNames # Walker(Other).propNames

(***************************************************************************)
(* Calls on files with nested members, unnamed nodes and super calls       *)
(* (SpecShapes).                                                           *)
(***************************************************************************)
\* number of top-level nodes of such a file
MaxShapeTop == 2

One == <<"1">>

\* interface Props { [key: string]: any; a }: the first member has no name
PropsIndexed == InterfaceSyntax(PropsName, <<Undefined, a>>)
\* interface Props { b; 1 }
PropsNumbered == InterfaceSyntax(PropsName, <<b, One>>)
\* interface Props { a; b; a }
PropsTwice == InterfaceSyntax(PropsName, <<a, b, a>>)

\* class { constructor(p) { ({ render() {} }); p.a } }
ClassNested ==
    ClassSyntax(<<ConstructorSyntax(<<p>>,
                    <<MethodSyntax(render, << >>, << >>),
                      StatementSyntax(Expression(p, <<a>>, Undefined))>>)>>)
\* class { constructor({ x }) { f(p) } }: the parameter is a pattern
ClassPattern ==
    ClassSyntax(<<ConstructorSyntax(<<Undefined>>,
                    <<StatementSyntax(Expression(p, << >>, FunctionName))>>)>>)
\* class { componentDidUpdate({ x }, s) { s.a } }
ClassHookPattern ==
    ClassSyntax(<<MethodSyntax(componentDidUpdate, <<Undefined, s>>,
                    <<StatementSyntax(Expression(s, <<a>>, Undefined))>>)>>)
\* class { [k](p, s) { p.a; f(s) } }: the name of the method is computed
ClassComputed ==
    ClassSyntax(<<MethodSyntax(Undefined, <<p, s>>,
                    <<StatementSyntax(Expression(p, <<a>>, Undefined)),
                      StatementSyntax(Expression(s, << >>, FunctionName))>>)>>)
\* class { constructor(p) { super(this.props) } }
ClassSuperProps ==
    ClassSyntax(<<ConstructorSyntax(<<p>>,
                    <<StatementSyntax(Expression(ThisKeyword, <<PropsWord>>,
                                                 SuperKeyword))>>)>>)
\* class { componentDidUpdate(p, s) { super(s) } }
ClassSuperState ==
    ClassSyntax(<<MethodSyntax(componentDidUpdate, <<p, s>>,
                    <<StatementSyntax(Expression(s, << >>, SuperKeyword))>>)>>)

\* class { 'componentDidUpdate'(p, s) { s.a } }: the name is a string literal
ClassLiteralHook ==
    ClassSyntax(<<LiteralMethodSyntax(componentDidUpdate, <<p, s>>,
                    <<StatementSyntax(Expression(s, <<a>>, Undefined))>>)>>)

ShapeTopLevel ==
    {PropsAB, StateA, PropsIndexed, PropsNumbered, PropsTwice, ClassNested,
     ClassPattern, ClassHookPattern, ClassComputed, ClassLiteralHook,
     ClassSuperProps, ClassSuperState}

InitShapes ==
    /\ \E items \in SequencesUpTo(ShapeTopLevel, MaxShapeTop) :
          sourceFile = [r \in RunIds |->
              IF r = Main THEN GivenFile("JSX", items) ELSE UnreadFile("Standard")]
    /\ InitCalls

SpecShapes == InitShapes /\ [][NextCalls]_vars

\* name is read as alias.name in the body of a member after a constructor
\* or method nested in that body
ReadAfterNested(items, contract, name) ==
    \E member \in ClassMembers(items) :
        \E i, j \in 1..Len(member.body) :
            /\ i < j
            /\ member.body[i].kind \in {"constructor", "method"}
            /\ member.body[j].kind = "statement"
            /\ member.body[j].e.callee = Undefined
            /\ AliasOf(member, contract) # Undefined
            /\ member.body[j].e.base = AliasOf(member, contract)
            /\ member.body[j].e.path = <<name>>

\* C11: an alias bound on entering a constructor or lifecycle method stays
\* bound up to its exit: alias.x read in the body after the walk has
\* returned from a nested method or constructor still removes x, so x is
\* not among the failures.
AliasOutlivesNestedMember ==
    \A contract \in {PropsName, StateName} : \A name \in {a, b} :
        (/\ Done(Main)
         /\ IsJsx(sourceFile[Main])
         /\ ReadAfterNested(sourceFile[Main].items, contract, name)) =>
            \A i \in 1..Len(result[Main]) :
                result[Main][i].failure # <<Prefix(contract)>> \o name

(***************************************************************************)
(* Further properties of one run (specification Spec).                     *)
(***************************************************************************)
\* The walk of the main file is in no constructor and in no method: none
\* is open where the file is read, and none is about to be left.
OutsideMembers ==
    /\ open = << >>
    /\ \A i \in 1..Len(todo[Main]) :
          todo[Main][i].hook \notin {"ConstructorEnd", "MethodEnd"}

\* C12: outside every constructor and method both alias registers are
\* unset; the exit from a constructor leaves the props alias unset and the
\* exit from a method leaves both unset.
AliasesUnsetOutsideMembers ==
    /\ [](OutsideMembers =>
             /\ heap[Main].propsAlias = Undefined
             /\ heap[Main].stateAlias = Undefined)
    /\ [][/\ Delivering("ConstructorEnd") => heap'[Main].propsAlias = Undefined
          /\ Delivering("MethodEnd") =>
                /\ heap'[Main].propsAlias = Undefined
                /\ heap'[Main].stateAlias = Undefined]_vars

\* C12, reached: the outermost method is left with both aliases bound
LeavingOutermostHook ==
    /\ Delivering("MethodEnd")
    /\ open = << >>
    /\ heap[Main].propsAlias # Undefined
    /\ heap[Main].stateAlias # Undefined
    /\ heap[Main].stateNames # << >>

\* C13: when the failures are reported after the classes were walked,
\* walkChildren has been called once on every class in the queue, in the
\* order of the queue, a class queued during the walk of another included.
EveryQueuedClassIsWalked ==
    [][(/\ pc[Main] = "analyze"
        /\ pc'[Main] = "done"
        /\ loop[Main].length > 0) =>
           loop[Main].index = Len(heap[Main].classDeclarations)]_vars

\* C14: during the walk of the source file only the visit of an interface
\* changes an unused set: no name is removed and no set is emptied, so
\* that at the start of the walk of the classes each set holds the names
\* of the last declaration of its contract.
CollectionRemovesNothing ==
    [][(pc[Main] = "collect" /\ ~Delivering("InterfaceDeclaration")) =>
          /\ heap'[Main].propNames = heap[Main].propNames
          /\ heap'[Main].stateNames = heap[Main].stateNames]_vars

\* the identifiers a parameter or the root of an access is named by
AliasNames == {p, q, s}

\* C15: whatever identifier names the bound alias, alias.y removes y from
\* the unused set of the alias's contract, and an access whose root is
\* another identifier removes nothing.
AliasAccessMatchesByRoot ==
    [][\A y \in {a, b} : \A root \in AliasNames :
          (Delivering("PropertyAccessExpression")
             /\ Node.text = AliasAccess(root, y)) =>
              /\ heap[Main].propsAlias = root =>
                    y \notin Names(heap'[Main].propNames)
              /\ heap[Main].stateAlias = root =>
                    y \notin Names(heap'[Main].stateNames)
              /\ root \notin {heap[Main].propsAlias, heap[Main].stateAlias} =>
                    /\ heap'[Main].propNames = heap[Main].propNames
                    /\ heap'[Main].stateNames = heap[Main].stateNames]_vars

(***************************************************************************)
(* Properties of the calls of SpecShapes.                                  *)
(***************************************************************************)
\* this.props (this.state) is passed whole to super(...) in a class
PassedToSuper(items, contract) ==
    \E member \in ClassMembers(items) : \E n \in MemberStatements(member) :
        /\ n.e.callee = SuperKeyword
        /\ n.e.base = ThisKeyword
        /\ n.e.path = <<Word(contract)>>

\* the state alias of a member is passed to super(...) in its body
StateAliasPassedToSuper(items) ==
    \E member \in ClassMembers(items) : \E n \in MemberStatements(member) :
        /\ n.e.callee = SuperKeyword
        /\ AliasOf(member, StateName) # Undefined
        /\ n.e.base = AliasOf(member, StateName)
        /\ n.e.path = << >>

\* C16: the exception for super(...) holds for the props alias identifier
\* only: this.props (this.state) passed whole to super empties the
\* contract's unused set like any escape, and the bare state alias outside
\* a member access and a parameter empties the State set, under super too.
SuperSparesOnlyThePropsAlias ==
    /\ []((Done(Main) /\ IsJsx(sourceFile[Main])) =>
             /\ \A contract \in {PropsName, StateName} :
                   PassedToSuper(sourceFile[Main].items, contract) =>
                       FailuresOf(result[Main], contract) = << >>
             /\ StateAliasPassedToSuper(sourceFile[Main].items) =>
                   FailuresOf(result[Main], StateName) = << >>)
    /\ [][/\ (/\ Delivering("PropertyAccessExpression")
              /\ Node.parent # PropertyAccessExpression
              /\ Node.text = ThisKeyword \o Dot \o PropsWord) =>
                 heap'[Main].propNames = << >>
          /\ (/\ Delivering("PropertyAccessExpression")
              /\ Node.parent # PropertyAccessExpression
              /\ Node.text = ThisKeyword \o Dot \o StateWord) =>
                 heap'[Main].stateNames = << >>
          /\ (/\ Delivering("Identifier")
              /\ heap[Main].stateAlias # Undefined
              /\ Node.text = heap[Main].stateAlias
              /\ Node.parent \notin {PropertyAccessExpression, Parameter}) =>
                 heap'[Main].stateNames = << >>]_vars

\* C16, reached: the bare state alias is visited as the argument of
\* super(...) while State names are unused
StateAliasUnderSuper ==
    /\ Delivering("Identifier")
    /\ heap[Main].stateAlias = s
    /\ Node.text = s
    /\ Node.parent = CallExpression
    /\ Node.callee = SuperKeyword
    /\ heap[Main].stateNames # << >>
    /\ StateAliasPassedToSuper(sourceFile[Main].items)

\* the names of the members that have a name
NamedMembers(members) ==
    {members[i].name : i \in {j \in 1..Len(members) : members[j].name # Undefined}}

\* the method about to be visited is named by an identifier: the walk
\* calls visitIdentifier on the name next
NameIsIdentifier ==
    /\ Len(todo[Main]) >= 2
    /\ todo[Main][2].hook = "Identifier"
    /\ todo[Main][2].parent = MethodDeclaration
    /\ todo[Main][2].text = Node.name

UnusedNamesUnchanged ==
    /\ heap'[Main].propNames = heap[Main].propNames
    /\ heap'[Main].stateNames = heap[Main].stateNames

AliasesUnchanged ==
    /\ heap'[Main].propsAlias = heap[Main].propsAlias
    /\ heap'[Main].stateAlias = heap[Main].stateAlias

\* a member without a name adds no entry to the map of its contract
UnnamedMemberAddsNothing ==
    /\ (Delivering("InterfaceDeclaration") /\ Node.text = PropsName) =>
          {e.key : e \in Range(heap'[Main].propNodes)} = NamedMembers(Node.members)
    /\ (Delivering("InterfaceDeclaration") /\ Node.text = StateName) =>
          {e.key : e \in Range(heap'[Main].stateNodes)} = NamedMembers(Node.members)

\* a parameter that is a pattern leaves its alias unset, and the unused
\* names as they are
PatternBindsNothing ==
    /\ (Delivering("Constructor") /\ Len(Node.params) >= 1
          /\ Node.params[1] = Undefined) =>
             heap'[Main].propsAlias = Undefined /\ UnusedNamesUnchanged
    /\ (Delivering("MethodDeclaration") /\ Len(Node.params) >= 1
          /\ Node.params[1] = Undefined /\ heap[Main].propsAlias = Undefined) =>
             heap'[Main].propsAlias = Undefined /\ UnusedNamesUnchanged
    /\ (Delivering("MethodDeclaration") /\ Len(Node.params) >= 2
          /\ Node.params[2] = Undefined /\ heap[Main].stateAlias = Undefined) =>
             heap'[Main].stateAlias = Undefined /\ UnusedNamesUnchanged

\* while no alias is bound, an identifier and an access not rooted at this
\* change no unused set
NoAliasNoEffect ==
    (/\ heap[Main].propsAlias = Undefined
     /\ heap[Main].stateAlias = Undefined
     /\ \/ Delivering("Identifier")
        \/ /\ Delivering("PropertyAccessExpression")
           /\ Node.text \in {AliasAccess(root, a) : root \in AliasNames}) =>
        UnusedNamesUnchanged

\* the walk goes on until the failures are reported
WalkGoesOn == sourceFile[Main].given => (Done(Main) \/ ENABLED NextCalls)

LastInterface(items, contract) ==
    CHOOSE k \in TopInterfaces(items, contract) :
        \A j \in TopInterfaces(items, contract) : j <= k

\* where a name is declared first and last among the members
FirstDeclaration(list, name) ==
    CHOOSE i \in 1..Len(list) :
        list[i] = name /\ \A j \in 1..Len(list) : list[j] = name => i <= j

LastDeclaration(list, name) ==
    CHOOSE i \in 1..Len(list) :
        list[i] = name /\ \A j \in 1..Len(list) : list[j] = name => j <= i

\* the failures of a contract follow the order of declaration in its
\* interface, each name once and at its last declaration
InDeclarationOrder(failures, items, contract) ==
    LET k == LastInterface(items, contract)
        list == items[k].list
        elements == TypeElements(list, k * TopStep)
        name(i) == Tail(failures[i].failure)
    IN  /\ \A i \in 1..Len(failures) :
              /\ name(i) \in Range(list)
              /\ failures[i].start = elements[LastDeclaration(list, name(i))].start
        /\ \A i \in 1..(Len(failures) - 1) :
              FirstDeclaration(list, name(i)) < FirstDeclaration(list, name(i + 1))

\* C18: the failures returned are those of Props followed by those of
\* State, and those of each contract are in the order in which the names
\* were declared in its interface, a name declared twice being reported
\* once, at its last declaration.
FindingsInDeclarationOrder ==
    (Done(Main) /\ IsJsx(sourceFile[Main])) =>
        /\ result[Main] = FailuresOf(result[Main], PropsName)
                             \o FailuresOf(result[Main], StateName)
        /\ \A contract \in {PropsName, StateName} :
              IF TopInterfaces(sourceFile[Main].items, contract) = {}
              THEN FailuresOf(result[Main], contract) = << >>
              ELSE InDeclarationOrder(FailuresOf(result[Main], contract),
                                      sourceFile[Main].items, contract)

=============================================================================
